---- MODULE Spec2Model ----
(***************************************************************************)
(* Model of htb_presence.py: the loop of main() that polls the HTB API and *)
(* mirrors the result into the Discord rich presence client.               *)
(*                                                                         *)
(* Every blocking call of the loop (an API request, a presence-client call,*)
(* a sleep) is one step.  The environment decides the outcome of each call:*)
(* it returns, it raises an Exception, or a KeyboardInterrupt arrives      *)
(* while it is blocked.                                                    *)
(*                                                                         *)
(* Python's None is the empty tuple and a present value x is <<x>>.  A     *)
(* string the code concatenates or tests with startswith() is a tuple of   *)
(* tokens ("" is <<>>); every other string is a TLA+ string.               *)
(***************************************************************************)
EXTENDS Integers, Sequences, FiniteSets, TLC

\* ---- bounds of the model ----
MaxLog == 2          \* longest activity log the API returns

\* ---- values the environment draws from ----
None == <<>>
Some(x) == <<x>>

Names == {"Lame", "Blue"}
RecTypes == {"user", "root", "own"}
Origin == <<"https://app.hackthebox.com">>
AvatarStrings == { <<>>, <<"/", "img/lame.png">>, <<"https://cdn.example/lame.png">> }
Avatars == {None} \cup {Some(a) : a \in AvatarStrings}
Users == { [id |-> 7, name |-> "alice"] }
Machines == [name : Names, avatar : Avatars]
ActivityRecs == [name : Names, type : RecTypes]
ActivityLogs == UNION {[1..n -> ActivityRecs] : n \in 0..MaxLog}

\* An HTTP exchange: requests.get raised (exc), or a response came back with
\* a status code and a decoded JSON body.
Raised == [raised |-> TRUE, value |-> None]
Return(v) == [raised |-> FALSE, value |-> v]

UserResponses ==
    {[exc |-> TRUE, status |-> 0, info |-> None]}
    \cup {[exc |-> FALSE, status |-> 401, info |-> None]}
    \cup {[exc |-> FALSE, status |-> 200, info |-> i] : i \in {None} \cup {Some(u) : u \in Users}}

StatusResponses ==
    {[exc |-> TRUE, status |-> 0, flag |-> FALSE]}
    \cup {[exc |-> FALSE, status |-> 500, flag |-> FALSE]}
    \cup {[exc |-> FALSE, status |-> 200, flag |-> b] : b \in BOOLEAN}

MachineResponses ==
    {[exc |-> TRUE, status |-> 0, info |-> None]}
    \cup {[exc |-> FALSE, status |-> s, info |-> None] : s \in {404, 500}}
    \cup {[exc |-> FALSE, status |-> 200, info |-> i] : i \in {None} \cup {Some(m) : m \in Machines}}

\* (an error answer may carry a body too, here of at most one record; the
\* code must not read it)
ActivityResponses ==
    {[exc |-> TRUE, status |-> 0, activity |-> <<>>]}
    \cup {[exc |-> FALSE, status |-> 200, activity |-> l] : l \in ActivityLogs}
    \cup {[exc |-> FALSE, status |-> 500, activity |-> l] :
              l \in {<<>>} \cup {<<rec>> : rec \in ActivityRecs}}

\* ---- the helpers of the script ----
get_user_info(r) ==
    IF r.exc \/ r.status # 200 THEN Raised ELSE Return(r.info)

get_connection_status(r) ==
    IF r.exc \/ r.status # 200 THEN Raised ELSE Return(r.flag)

get_active_machine_NotFoundRaises(r) ==
    IF r.exc \/ r.status # 200 THEN Raised ELSE Return(r.info)

get_active_machine(r) ==
    IF r.exc THEN Raised
    ELSE IF r.status = 404 THEN Return(None)
    ELSE IF r.status # 200 THEN Raised
    ELSE Return(r.info)

machine_avatar_AlwaysPrefixed(m) ==
    LET a == IF m.avatar = None THEN <<>> ELSE m.avatar[1]
    IN  IF Len(a) > 0 THEN Origin \o a ELSE a

\* lines 115-117: the avatar of the active machine, made absolute
machine_avatar(m) ==
    LET a == IF m.avatar = None THEN <<>> ELSE m.avatar[1]
    IN  IF Len(a) > 0 /\ Head(a) = "/" THEN Origin \o a ELSE a

activity_scan_AnyMachine(name, act) ==
    LET Has(t) == \E i \in 1..Len(act) : act[i].type = t
    IN  [user |-> Has("user"), root |-> Has("root")]

\* lines 126-132: the scan of the activity list for the active machine
activity_scan(name, act) ==
    LET Has(t) == \E i \in 1..Len(act) : act[i].name = name /\ act[i].type = t
    IN  [user |-> Has("user"), root |-> Has("root")]

fetch_activity_flags_IgnoresStatus(name, r) ==
    IF r.exc
    THEN [user |-> FALSE, root |-> FALSE]
    ELSE activity_scan(name, r.activity)

\* lines 121-134: the flags after the guarded request of the activity log
fetch_activity_flags(name, r) ==
    IF r.exc \/ r.status # 200
    THEN [user |-> FALSE, root |-> FALSE]
    ELSE activity_scan(name, r.activity)

Flag(b) == IF b THEN "green" ELSE "red"

\* lines 136-144: the keyword arguments of the update() for an active machine
build_presence(u, m, flags) ==
    [details     |-> m.name,
     state       |-> <<"User: ", Flag(flags.user), " | Root: ", Flag(flags.root)>>,
     large_image |-> IF machine_avatar(m) # <<>> THEN machine_avatar(m) ELSE <<"htb_logo">>,
     small_image |-> "",
     small_text  |-> IF u # None THEN u[1].name ELSE ""]

\* line 110: the keyword arguments of the update() shown while on the VPN
default_presence ==
    [details    |-> "Connected to HTB",
     state      |-> <<"Waiting for active machine">>,
     large_text |-> "Hack The Box"]

\* ---- state ----
VARIABLES
    HTB_API_TOKEN,    \* line 21: None when the variable is not set
    pc,               \* the call main() is about to make, or "done"
    connected_rpc,    \* line 70
    last_machine,     \* line 71
    user,             \* line 87
    connection,       \* line 95
    active,           \* line 102
    activity_flags,   \* line 121
    exit_code,        \* exit status of the process, -1 while it runs
    \* observations of the run
    interrupted,      \* a KeyboardInterrupt was raised in this iteration
    lastCall,         \* the most recent external call and its outcome
    payload,          \* keyword arguments of this iteration's update()
    act_resp,         \* the activity-log exchange not yet rendered
    slept,            \* length of the most recent completed sleep
    cur,              \* what this iteration has done so far
    prev,             \* what the previous iteration did
    sincePush,        \* calls of line 106 since the last successful machine push
    lastPush,         \* kind of the most recent successful update()
    lastRecon,        \* most recent successful update() or no-session clear()
    clearedSincePush  \* a no-session clear() succeeded since the last machine push

vars == <<HTB_API_TOKEN, pc, connected_rpc, last_machine, user, connection, active,
          activity_flags, exit_code, interrupted, lastCall, payload, act_resp,
          slept, cur, prev, sincePush, lastPush, lastRecon, clearedSincePush>>

locals == <<user, connection, active, activity_flags, act_resp>>
history == <<sincePush, lastPush, lastRecon, clearedSincePush>>

NoPush == 0 - 1
Running == 0 - 1
NoFlags == [user |-> FALSE, root |-> FALSE]
FreshIter == [session |-> "unknown", name |-> None, escalated |-> FALSE,
              cause |-> "none", pushed |-> FALSE, status |-> "none",
              activity |-> "none", fetches |-> <<>>, rpc |-> <<>>]
\* what is remembered of an iteration once the next one runs
Summary(it) == [session |-> it.session, name |-> it.name,
                escalated |-> it.escalated, pushed |-> it.pushed,
                last_machine |-> None]
\* a call, its outcome, and the HTTP status that came back (0 when there is none)
Answered(op, res, st) == [op |-> op, res |-> res, status |-> st]
NoCall == Answered("none", "none", 0)
CallOf(op, res) == Answered(op, res, 0)

\* the calls made inside the try body of lines 74-156
TryBody == {"connect", "sleep3", "user_info", "conn_status", "active_machine",
            "clear", "update_default", "sleep5", "activity", "update_machine",
            "sleep10"}

token_missing_OnlyNone(t) == t = None

\* line 25: `not HTB_API_TOKEN` holds for an unset and for an empty variable
token_missing(t) == t = None \/ t = Some("")

\* what os.getenv("HTB_API_TOKEN") may give
Tokens == {None, Some(""), Some("eyJ0eXAi")}

\* the state in which main() reaches line 73: the token is there, the client
\* is constructed (line 69) and not connected
Init ==
    /\ HTB_API_TOKEN \in {t \in Tokens : ~token_missing(t)}
    /\ pc = "connect"
    /\ connected_rpc = FALSE
    /\ last_machine = None
    /\ user = None
    /\ connection = FALSE
    /\ active = None
    /\ activity_flags = NoFlags
    /\ exit_code = Running
    /\ interrupted = FALSE
    /\ lastCall = CallOf("Presence", "ok")
    /\ payload = None
    /\ act_resp = None
    /\ slept = 0
    /\ cur = FreshIter
    /\ prev = Summary(FreshIter)
    /\ sincePush = NoPush
    /\ lastPush = "none"
    /\ lastRecon = "none"
    /\ clearedSincePush = FALSE

LoopHead_ReconnectsAfterFailure ==
    IF connected_rpc /\ ~cur.escalated THEN "user_info" ELSE "connect"

\* line 73: the head of the loop, reached by `continue` or by falling off the
\* end of the try statement
LoopHead == IF connected_rpc THEN "user_info" ELSE "connect"

\* sincePush counts 0, 1 and "more than one"
Bump(n) == IF n = NoPush THEN NoPush ELSE IF n < 2 THEN n + 1 ELSE n

Fetched(op) == [cur EXCEPT !.fetches = Append(@, op)]
RpcCalled(op) == [cur EXCEPT !.rpc = Append(@, op)]

\* The locals of the iteration are dead once it is left (each is assigned
\* again before it is read, lines 87, 95, 102, 121; the handlers read none).
DropLocals ==
    /\ user' = None
    /\ connection' = FALSE
    /\ active' = None
    /\ activity_flags' = NoFlags
    /\ act_resp' = None

\* A sleep that ran to its end closes the iteration.
EndIteration(d) ==
    /\ slept' = d
    /\ interrupted' = FALSE
    /\ prev' = [Summary(cur) EXCEPT !.last_machine = last_machine]
    /\ payload' = None
    /\ cur' = FreshIter
    /\ DropLocals
    /\ pc' = LoopHead
    /\ lastCall' = CallOf("sleep", "ok")

\* An Exception that reaches line 164.
Escalate(it) ==
    /\ pc' = "h_clear"
    /\ cur' = [it EXCEPT !.escalated = TRUE, !.cause = pc]

Outcome(ok) == IF ok THEN "ok" ELSE "fail"

after_connect_FallsThrough(ok) == "user_info"

\* lines 79-84: where the connect step goes
after_connect(ok) == IF ok THEN "user_info" ELSE "sleep3"

after_clear_NeverPushes(conn) == "sleep5"

\* lines 109-111: the default presence is shown only while on the VPN
after_clear(conn) == IF conn THEN "update_default" ELSE "sleep5"

no_session_branch_AlwaysClears(lm, conn) == "clear"

\* lines 104-111: the no-session branch, entered with last_machine lm
no_session_branch(lm, conn) ==
    IF lm # None THEN "clear" ELSE after_clear(conn)

cleared_machine_Stale(lm) == lm

\* line 107: last_machine after a successful clear() of the no-session branch
cleared_machine(lm) == None

on_user_info_error_Swallowed == "conn_status"

\* lines 90-93: a failure of get_user_info() is printed and raised again
on_user_info_error == "h_clear"

connection_on_error_True == TRUE

\* lines 98-100: the value of `connection` after a failed status request
connection_on_error == FALSE

pushed_machine_Stale(name, lm) == lm

\* lines 147-151: last_machine after a successful update() for machine name
pushed_machine(name, lm) == IF Some(name) # lm THEN Some(name) ELSE lm

after_connection_status_Retries(raised) ==
    IF raised THEN "conn_status" ELSE "active_machine"

\* lines 96-102: with or without an error the next statement is line 102
after_connection_status(raised) == "active_machine"

machine_after_failed_call_Reset(lm) == None

\* lines 106-107 and 149-151: the call raised, so the assignment that follows
\* it is not executed
machine_after_failed_call(lm) == lm

after_handler_clear_Raises(res) == IF res = "fail" THEN "done" ELSE "h_sleep"

\* lines 167-171: the bare except drops whatever rpc.clear() raised
after_handler_clear(res) == "h_sleep"

\* ---- the steps of main() ----

\* lines 76-82: rpc.connect() inside its own try
Connect ==
    /\ pc = "connect"
    /\ \E ok \in BOOLEAN :
        /\ lastCall' = CallOf("connect", Outcome(ok))
        /\ connected_rpc' = IF ok THEN TRUE ELSE connected_rpc
        /\ pc' = after_connect(ok)
    /\ cur' = RpcCalled("connect")
    /\ UNCHANGED <<last_machine, locals, exit_code, interrupted, payload,
                   slept, prev, history>>
    /\ UNCHANGED HTB_API_TOKEN

\* lines 83-84: time.sleep(3); continue
Sleep3 ==
    /\ pc = "sleep3"
    /\ EndIteration(3)
    /\ UNCHANGED <<connected_rpc, last_machine, exit_code, history>>
    /\ UNCHANGED HTB_API_TOKEN

\* lines 87-93: user = get_user_info(), re-raised on failure
GetUserInfo ==
    /\ pc = "user_info"
    /\ \E r \in UserResponses :
        LET res == get_user_info(r) IN
        /\ lastCall' = CallOf("user_info", Outcome(~res.raised))
        /\ IF res.raised
           THEN /\ user' = None
                /\ pc' = on_user_info_error
                /\ cur' = IF on_user_info_error = "h_clear"
                          THEN [Fetched("user_info") EXCEPT !.escalated = TRUE,
                                                            !.cause = pc]
                          ELSE Fetched("user_info")
           ELSE /\ user' = res.value
                /\ pc' = "conn_status"
                /\ cur' = Fetched("user_info")
    /\ UNCHANGED <<connected_rpc, last_machine, connection, active,
                   activity_flags, act_resp, exit_code, interrupted, payload,
                   slept, prev, history>>
    /\ UNCHANGED HTB_API_TOKEN

\* lines 95-100: connection = get_connection_status(), False on failure
GetConnectionStatus ==
    /\ pc = "conn_status"
    /\ \E r \in StatusResponses :
        LET res == get_connection_status(r) IN
        /\ lastCall' = CallOf("conn_status", Outcome(~res.raised))
        /\ connection' = IF res.raised THEN connection_on_error ELSE res.value
        /\ cur' = [Fetched("conn_status") EXCEPT !.status = Outcome(~res.raised)]
        /\ pc' = after_connection_status(res.raised)
    /\ UNCHANGED <<connected_rpc, last_machine, user, active, activity_flags,
                   act_resp, exit_code, interrupted, payload, slept, prev,
                   history>>
    /\ UNCHANGED HTB_API_TOKEN

\* lines 102-104, 109, 111: active = get_active_machine() and the branch on it
GetActiveMachine ==
    /\ pc = "active_machine"
    /\ \E r \in MachineResponses :
        LET res == get_active_machine(r)
            it  == Fetched("active_machine") IN
        /\ lastCall' = Answered("active_machine", Outcome(~res.raised), r.status)
        /\ IF res.raised
           THEN Escalate(it) /\ UNCHANGED active
           ELSE /\ active' = res.value
                /\ IF res.value = None
                   THEN /\ cur' = [it EXCEPT !.session = "absent"]
                        /\ pc' = no_session_branch(last_machine, connection)
                   ELSE /\ cur' = [it EXCEPT !.session = "present",
                                             !.name = Some(res.value[1].name)]
                        /\ pc' = "activity"
        \* `connection` is read at line 109 only, in the no-session branch
        /\ connection' = IF ~res.raised /\ res.value # None
                          THEN FALSE ELSE connection
    /\ UNCHANGED <<connected_rpc, last_machine, user,
                   activity_flags, act_resp, exit_code, interrupted, payload,
                   slept, prev, history>>
    /\ UNCHANGED HTB_API_TOKEN

\* lines 104-107, 109: rpc.clear(); last_machine = None
ClearNoSession ==
    /\ pc = "clear"
    /\ sincePush' = Bump(sincePush)
    /\ \E ok \in BOOLEAN :
        /\ lastCall' = CallOf("clear", Outcome(ok))
        /\ IF ok
           THEN /\ last_machine' = cleared_machine(last_machine)
                /\ lastRecon' = "cleared"
                /\ clearedSincePush' = TRUE
                /\ cur' = RpcCalled("clear")
                /\ pc' = after_clear(connection)
           ELSE /\ Escalate(RpcCalled("clear"))
                /\ last_machine' = machine_after_failed_call(last_machine)
                /\ UNCHANGED <<lastRecon, clearedSincePush>>
    /\ UNCHANGED <<connected_rpc, locals, exit_code, interrupted, payload,
                   slept, prev, lastPush>>
    /\ UNCHANGED HTB_API_TOKEN

\* line 110: rpc.update(...) of the default presence
UpdateDefault ==
    /\ pc = "update_default"
    /\ payload' = Some(default_presence)
    /\ \E ok \in BOOLEAN :
        /\ lastCall' = CallOf("update", Outcome(ok))
        /\ IF ok
           THEN /\ lastPush' = "default"
                /\ lastRecon' = "default"
                /\ cur' = RpcCalled("update")
                /\ pc' = "sleep5"
           ELSE /\ Escalate(RpcCalled("update"))
                /\ UNCHANGED <<lastPush, lastRecon>>
    /\ UNCHANGED <<connected_rpc, last_machine, locals, exit_code, interrupted,
                   slept, prev, sincePush, clearedSincePush>>
    /\ UNCHANGED HTB_API_TOKEN

\* lines 111-112: time.sleep(5); continue
Sleep5 ==
    /\ pc = "sleep5"
    /\ EndIteration(5)
    /\ UNCHANGED <<connected_rpc, last_machine, exit_code, history>>
    /\ UNCHANGED HTB_API_TOKEN

\* lines 121-134: the guarded request of the activity log.  With user = None
\* line 123 raises before any request is sent.
FetchActivity ==
    /\ pc = "activity"
    /\ IF user = None
       THEN /\ activity_flags' = NoFlags
            /\ lastCall' = CallOf("activity", "fail")
            /\ cur' = [cur EXCEPT !.activity = "fail"]
            /\ UNCHANGED act_resp
       ELSE \E r \in ActivityResponses :
            LET ok == ~(r.exc \/ r.status # 200) IN
            /\ act_resp' = Some(r)
            /\ activity_flags' = fetch_activity_flags(active[1].name, r)
            /\ lastCall' = CallOf("activity", Outcome(ok))
            /\ cur' = [Fetched("activity") EXCEPT !.activity = Outcome(ok)]
    /\ pc' = "update_machine"
    /\ UNCHANGED <<connected_rpc, last_machine, user, connection, active,
                   exit_code, interrupted, payload, slept, prev, history>>
    /\ UNCHANGED HTB_API_TOKEN

\* lines 149-151 and 154-155: rpc.update(...) of the machine presence
MachineUpdate ==
    /\ payload' = Some(build_presence(user, active[1], activity_flags))
    /\ \E ok \in BOOLEAN :
        /\ lastCall' = CallOf("update", Outcome(ok))
        /\ IF ok
           THEN /\ last_machine' = pushed_machine(active[1].name, last_machine)
                /\ sincePush' = 0
                /\ lastPush' = "machine"
                /\ lastRecon' = "machine"
                /\ clearedSincePush' = FALSE
                /\ cur' = [RpcCalled("update") EXCEPT !.pushed = TRUE]
                /\ pc' = "sleep10"
           ELSE /\ Escalate(RpcCalled("update"))
                /\ last_machine' = machine_after_failed_call(last_machine)
                /\ UNCHANGED history

\* lines 147-151: the machine changed
UpdateChangedMachine == MachineUpdate

RefreshMachine_Skipped ==
    /\ pc' = "sleep10"
    /\ UNCHANGED <<payload, lastCall, last_machine, history, cur>>

\* lines 152-155: the same machine as in the last push, pushed again
RefreshMachine == MachineUpdate

\* lines 147-155
UpdateMachine ==
    /\ pc = "update_machine"
    /\ act_resp' = None
    /\ IF Some(active[1].name) # last_machine
       THEN UpdateChangedMachine
       ELSE RefreshMachine
    /\ UNCHANGED <<connected_rpc, user, connection, active, activity_flags,
                   exit_code, interrupted, slept, prev>>
    /\ UNCHANGED HTB_API_TOKEN

Sleep10_AsShortAsIdle ==
    /\ pc = "sleep10"
    /\ EndIteration(5)
    /\ UNCHANGED <<connected_rpc, last_machine, exit_code, history>>
    /\ UNCHANGED HTB_API_TOKEN

\* line 156: time.sleep(10)
Sleep10 ==
    /\ pc = "sleep10"
    /\ EndIteration(10)
    /\ UNCHANGED <<connected_rpc, last_machine, exit_code, history>>
    /\ UNCHANGED HTB_API_TOKEN

\* lines 164-170: the handler of Exception: rpc.clear(), its failure swallowed
HandlerClear ==
    /\ pc = "h_clear"
    /\ \E ok \in BOOLEAN :
        /\ lastCall' = CallOf("clear", Outcome(ok))
        /\ pc' = after_handler_clear(Outcome(ok))
    /\ cur' = RpcCalled("h_clear")
    /\ UNCHANGED <<connected_rpc, last_machine, locals, exit_code, interrupted,
                   payload, slept, prev, history>>
    /\ UNCHANGED HTB_API_TOKEN

HandlerSleep_GivesUp ==
    /\ pc = "h_sleep"
    /\ pc' = "done"
    /\ exit_code' = 1
    /\ UNCHANGED <<connected_rpc, last_machine, locals, interrupted, lastCall,
                   payload, slept, cur, prev, history>>
    /\ UNCHANGED HTB_API_TOKEN

\* line 171: time.sleep(5), then back to line 73
HandlerSleep ==
    /\ pc = "h_sleep"
    /\ EndIteration(5)
    /\ UNCHANGED <<connected_rpc, last_machine, exit_code, history>>
    /\ UNCHANGED HTB_API_TOKEN

\* line 158: a KeyboardInterrupt raised anywhere in the try body
KeyboardInterrupt ==
    /\ pc \in TryBody
    /\ interrupted' = TRUE
    /\ lastCall' = CallOf(pc, "interrupt")
    /\ pc' = "kb_clear"
    /\ DropLocals
    /\ UNCHANGED <<connected_rpc, last_machine, exit_code, payload,
                   slept, cur, prev, history>>
    /\ UNCHANGED HTB_API_TOKEN

\* lines 159-163: rpc.clear() under a bare except, then break; main() returns
\* and the interpreter exits with status 0
InterruptClear ==
    /\ pc = "kb_clear"
    /\ \E res \in {"ok", "fail", "interrupt"} : lastCall' = CallOf("clear", res)
    /\ cur' = RpcCalled("kb_clear")
    /\ pc' = "done"
    /\ exit_code' = 0
    /\ UNCHANGED <<connected_rpc, last_machine, locals, interrupted, payload,
                   slept, prev, history>>
    /\ UNCHANGED HTB_API_TOKEN

\* lines 167-170: a KeyboardInterrupt raised inside the handler's rpc.clear()
\* is caught by the bare except and dropped
InterruptHandlerClear ==
    /\ pc = "h_clear"
    /\ interrupted' = TRUE
    /\ lastCall' = CallOf("clear", "interrupt")
    /\ cur' = RpcCalled("h_clear")
    /\ pc' = after_handler_clear("interrupt")
    /\ UNCHANGED <<connected_rpc, last_machine, locals, exit_code, payload,
                   slept, prev, history>>
    /\ UNCHANGED HTB_API_TOKEN

\* exit status of an interpreter that dies of an unhandled KeyboardInterrupt
UnhandledExit == {1, 130}

\* line 171: a KeyboardInterrupt raised in the handler's sleep is outside every
\* try body: it leaves main() unhandled
InterruptHandlerSleep ==
    /\ pc = "h_sleep"
    /\ interrupted' = TRUE
    /\ lastCall' = CallOf("h_sleep", "interrupt")
    /\ pc' = "done"
    /\ exit_code' \in UnhandledExit
    /\ UNCHANGED <<connected_rpc, last_machine, locals, payload, slept, cur,
                   prev, history>>
    /\ UNCHANGED HTB_API_TOKEN

\* lines 21-27 and 68-71: the start of the script, up to the loop
Startup ==
    /\ pc = "startup"
    /\ IF token_missing(HTB_API_TOKEN)
       THEN /\ pc' = "done"
            /\ exit_code' = 1
            /\ UNCHANGED lastCall
       ELSE /\ pc' = "connect"
            /\ lastCall' = CallOf("Presence", "ok")
            /\ UNCHANGED exit_code
    /\ UNCHANGED <<HTB_API_TOKEN, connected_rpc, last_machine, locals,
                   interrupted, payload, slept, cur, prev, history>>

Next ==
    \/ Connect
    \/ Sleep3
    \/ GetUserInfo
    \/ GetConnectionStatus
    \/ GetActiveMachine
    \/ ClearNoSession
    \/ UpdateDefault
    \/ Sleep5
    \/ FetchActivity
    \/ UpdateMachine
    \/ Sleep10
    \/ HandlerClear
    \/ HandlerSleep
    \/ KeyboardInterrupt
    \/ InterruptClear
    \/ InterruptHandlerClear
    \/ InterruptHandlerSleep

Spec == Init /\ [][Next]_vars

\* The loop is sequential and every call it makes returns (requests carry
\* timeout=8, line 38; the sleeps are finite), so some step is always taken
\* while the process runs.
LiveSpec == Init /\ [][Next]_vars /\ WF_vars(Next)

\* the script from its first line
StartupInit ==
    /\ HTB_API_TOKEN \in Tokens
    /\ pc = "startup"
    /\ connected_rpc = FALSE
    /\ last_machine = None
    /\ user = None
    /\ connection = FALSE
    /\ active = None
    /\ activity_flags = NoFlags
    /\ exit_code = Running
    /\ interrupted = FALSE
    /\ lastCall = NoCall
    /\ payload = None
    /\ act_resp = None
    /\ slept = 0
    /\ cur = FreshIter
    /\ prev = Summary(FreshIter)
    /\ sincePush = NoPush
    /\ lastPush = "none"
    /\ lastRecon = "none"
    /\ clearedSincePush = FALSE

StartupNext == Startup \/ Next

StartupSpec == StartupInit /\ [][StartupNext]_vars

TypeOK ==
    /\ HTB_API_TOKEN \in Tokens
    /\ pc \in TryBody \cup {"startup", "h_clear", "h_sleep", "kb_clear", "done"}
    /\ connected_rpc \in BOOLEAN
    /\ last_machine \in {None} \cup {Some(n) : n \in Names}
    /\ connection \in BOOLEAN
    /\ exit_code \in {Running, 0} \cup UnhandledExit

Calls(it) == {it.rpc[i] : i \in 1..Len(it.rpc)}
Requests(it) == {it.fetches[i] : i \in 1..Len(it.fetches)}

\* ---- C1 ----
\* C1 as stated: between one successful push of a machine payload and the
\* next one the loop calls clear() at most once (here counting only the
\* clear() of the no-session branch, line 106), and a no-session iteration
\* that directly follows another no-session iteration issues no clear.
C1_ClearAtMostOncePerTransition ==
    /\ sincePush <= 1
    /\ (prev.session = "absent" /\ cur.session = "absent")
           => (pc # "clear" /\ "clear" \notin Calls(cur))

\* C1, amended: the clear() of the no-session branch is not issued again once
\* it has succeeded, until the next successful push of a machine payload; and
\* a no-session iteration that directly follows a no-session iteration which
\* completed without escalation issues no clear() in the no-session branch.
C1_NoClearAfterSuccessfulClear ==
    /\ pc = "clear" => ~clearedSincePush
    /\ (prev.session = "absent" /\ ~prev.escalated /\ cur.session = "absent")
           => (pc # "clear" /\ "clear" \notin Calls(cur))

\* the second of two consecutive absent polls after a machine was shown and
\* cleared has run through its branch
C1_Witness ==
    /\ clearedSincePush
    /\ prev.session = "absent" /\ ~prev.escalated
    /\ cur.session = "absent"
    /\ pc = "sleep5"

Escalating == {"user_info", "active_machine", "clear", "update_default",
               "update_machine"}
HandlerClears(it) == Cardinality({i \in 1..Len(it.rpc) : it.rpc[i] = "h_clear"})

\* ---- C2 ----
\* C2 as stated: last_machine is set exactly when the most recent successful
\* push (update()) was the push of a payload for an active machine.
C2_MachineIffLastPush ==
    (last_machine # None) <=> (lastPush = "machine")

\* C2, amended: last_machine is set exactly when the most recent successful
\* call by which the loop body changes the presence, an update() or the
\* clear() of the no-session branch, was the update() for an active machine.
C2_MachineIffLastReconciliation ==
    (last_machine # None) <=> (lastRecon = "machine")

\* a machine was shown, then cleared off the VPN: nothing was pushed since
C2_Witness ==
    /\ lastPush = "machine"
    /\ lastRecon = "cleared"
    /\ last_machine = None
    /\ pc = "sleep5"

\* ---- C3 ----
\* C3: once a KeyboardInterrupt has arrived the process does nothing but the
\* one clear() of lines 160-162, and it ends with exit status 0 right after
\* that clear().
C3_InterruptClearsOnceAndExitsZero ==
    /\ interrupted => pc \in {"kb_clear", "done"}
    /\ pc = "done" => /\ exit_code = 0
                      /\ lastCall.op = "clear"
                      /\ cur.rpc # <<>> /\ cur.rpc[Len(cur.rpc)] = "kb_clear"

C5_NoFetchBeforeConnected ==
    /\ [](~connected_rpc
              => /\ pc \notin {"user_info", "conn_status", "active_machine",
                               "activity"}
                 /\ cur.fetches = <<>>
                 /\ prev.session = "unknown")
    /\ [][(pc = "connect" /\ lastCall'.res = "fail")
              => (pc' = "sleep3" /\ ~connected_rpc')]_vars
    /\ [][(pc = "sleep3" /\ lastCall'.res # "interrupt")
              => (slept' = 3 /\ pc' = "connect")]_vars

\* connect() failed, the loop slept 3, and the second connect() succeeded
C5_Witness ==
    /\ slept = 3
    /\ connected_rpc
    /\ pc = "user_info"
    /\ cur.rpc = <<"connect">>
    /\ cur.fetches = <<>>

\* ---- C6 ----
\* C6: when two consecutive iterations that both completed without escalation
\* saw the same active machine, update() was called with that machine's
\* payload in both, and last_machine after the second is what it was after
\* the first.
C6_SameMachinePushedAgain ==
    (/\ pc = "sleep10"
     /\ prev.session = "present" /\ ~prev.escalated
     /\ cur.session = "present" /\ ~cur.escalated
     /\ prev.name = cur.name)
        => /\ prev.pushed
           /\ cur.pushed /\ "update" \in Calls(cur)
           /\ payload # None /\ payload[1].details = cur.name[1]
           /\ last_machine = prev.last_machine
           /\ last_machine = cur.name

\* the second of two iterations on the same machine has made its push
C6_Witness ==
    /\ pc = "sleep10"
    /\ prev.session = "present" /\ ~prev.escalated
    /\ cur.session = "present" /\ cur.pushed
    /\ prev.name = cur.name

\* ---- C7 ----
\* C7: an iteration whose active machine differs from last_machine (None
\* included) goes on to update(); the details of that update() are the new
\* name, and when the update() succeeds last_machine is the new name.
C7_ChangedMachinePushed ==
    /\ [][(pc = "active_machine" /\ lastCall'.res = "ok" /\ active' # None)
              => pc' = "activity"]_vars
    /\ [][(pc = "activity" /\ lastCall'.res # "interrupt")
              => pc' = "update_machine"]_vars
    /\ [][(pc = "update_machine" /\ lastCall'.res # "interrupt"
               /\ Some(active[1].name) # last_machine)
              => /\ lastCall'.op = "update"
                 /\ payload' # None /\ payload'[1].details = active[1].name
                 /\ lastCall'.res = "ok"
                        => last_machine' = Some(active[1].name)]_vars

\* the machine changed from one iteration to the next and the new one has
\* been pushed
C7_Witness ==
    /\ pc = "sleep10"
    /\ prev.last_machine # None
    /\ prev.last_machine # cur.name
    /\ last_machine = cur.name
    /\ payload # None /\ payload[1].details = cur.name[1]

C9_ConnectionStatusDegrades ==
    /\ [][(pc = "conn_status" /\ lastCall'.res = "fail")
              => /\ connection' = FALSE
                 /\ pc' = "active_machine"
                 /\ ~cur'.escalated]_vars
    /\ [](cur.status = "fail"
              => /\ ~connection
                 /\ cur.cause # "conn_status"
                 /\ pc # "update_default"
                 /\ cur.session = "absent" => "update" \notin Calls(cur))

\* a no-session iteration whose status request failed has reached its sleep
C9_Witness ==
    /\ cur.status = "fail"
    /\ cur.session = "absent"
    /\ pc = "sleep5"
    /\ cur.fetches = <<"user_info", "conn_status", "active_machine">>

\* ---- C10 ----
\* C10: when the request of the activity log raises or answers with a status
\* other than 200 the flags are both False, the iteration goes on to the
\* update() of the machine payload, which shows both flags as not achieved,
\* and the handler of line 164 is not entered because of it.
C10_ActivityFailureDegrades ==
    /\ [][(pc = "activity" /\ lastCall'.res = "fail")
              => /\ activity_flags' = NoFlags
                 /\ pc' = "update_machine"
                 /\ ~cur'.escalated]_vars
    /\ [][(pc = "update_machine" /\ cur.activity = "fail"
               /\ lastCall'.res # "interrupt")
              => /\ lastCall'.op = "update"
                 /\ payload'[1].details = active[1].name
                 /\ payload'[1].state = <<"User: ", "red", " | Root: ", "red">>]_vars
    /\ [](cur.activity = "fail" => cur.cause \notin {"activity"})

\* the request of the log was sent and failed, and the machine payload has
\* been pushed with both flags not achieved
C10_Witness ==
    /\ cur.activity = "fail"
    /\ "activity" \in Requests(cur)
    /\ cur.pushed
    /\ pc = "sleep10"
    /\ payload[1].state = <<"User: ", "red", " | Root: ", "red">>

\* ---- C11 ----
\* what an answer of "no active machine" does to the state, whatever the
\* status it came with
C11_NoSessionEffect ==
    /\ lastCall'.res = "ok"
    /\ active' = None
    /\ cur' = [cur EXCEPT !.fetches = Append(@, "active_machine"),
                          !.session = "absent"]
    /\ pc' = IF last_machine # None THEN "clear"
             ELSE IF connection THEN "update_default"
             ELSE "sleep5"
    /\ UNCHANGED <<connected_rpc, last_machine, user, connection,
                   activity_flags, act_resp, exit_code, interrupted, payload,
                   slept, prev, history>>

\* C11: an answer 404 to the request of the active machine and an answer 200
\* with a null payload lead from the same state to the same state (the
\* recorded status aside), which is not the handler of line 164; an answer
\* with any other status is escalated.
C11_NotFoundIsNoSession ==
    /\ [][(pc = "active_machine" /\ lastCall'.status = 404)
              => C11_NoSessionEffect]_vars
    /\ [][(pc = "active_machine" /\ lastCall'.status = 200 /\ active' = None)
              => C11_NoSessionEffect]_vars
    /\ [][(pc = "active_machine" /\ lastCall'.op = "active_machine"
               /\ lastCall'.status \notin {0, 200, 404})
              => (lastCall'.res = "fail" /\ pc' = "h_clear"
                  /\ cur'.cause = "active_machine")]_vars

\* a 404 came back while a machine was shown: the clear() is due
C11_Witness ==
    /\ lastCall = Answered("active_machine", "ok", 404)
    /\ cur.session = "absent"
    /\ last_machine # None
    /\ pc = "clear"

\* ---- C12 ----
NoSessionIterationOver ==
    cur.session = "absent" /\ pc \in {"sleep5", "h_clear", "h_sleep"}

\* C12 as stated: every no-session iteration with connection true calls
\* update() with the default payload, and a no-session iteration with
\* connection false calls no update().
C12_DefaultPushedWheneverConnected ==
    NoSessionIterationOver
        => IF connection
           THEN "update" \in Calls(cur) /\ payload = Some(default_presence)
           ELSE "update" \notin Calls(cur) /\ payload = None

\* C12, amended: every no-session iteration with connection true calls
\* update() with the default payload, unless the clear() of line 106 raised
\* in it (the iteration then goes to the handler of line 164 before line
\* 110); a no-session iteration with connection false calls no update().
C12_DefaultPushedUnlessClearRaised ==
    NoSessionIterationOver
        => IF connection
           THEN \/ "update" \in Calls(cur) /\ payload = Some(default_presence)
                \/ cur.cause = "clear" /\ "update" \notin Calls(cur)
           ELSE "update" \notin Calls(cur) /\ payload = None

\* the second of two consecutive no-session iterations on the VPN has pushed
\* the default payload again
C12_Witness ==
    /\ prev.session = "absent" /\ ~prev.escalated
    /\ prev.last_machine = None
    /\ cur.session = "absent" /\ connection
    /\ pc = "sleep5"
    /\ cur.rpc = <<"update">>
    /\ payload = Some(default_presence)

\* ---- C13 ----
Records(log) == {log[i] : i \in 1..Len(log)}
Shown(b) == IF b THEN "green" ELSE "red"

\* C13: when the activity log has been fetched, the update() that follows
\* has the machine's name as details, shows the user flag as achieved
\* exactly when the log holds a record of that name and type "user", and the
\* root flag exactly when it holds one of that name and type "root".
C13_FlagsFollowTheLog ==
    [][(/\ pc = "update_machine"
        /\ act_resp # None /\ ~act_resp[1].exc /\ act_resp[1].status = 200
        /\ lastCall'.res # "interrupt")
          => LET name == active[1].name
                 log  == Records(act_resp[1].activity)
             IN  /\ lastCall'.op = "update"
                 /\ payload'[1].details = name
                 /\ payload'[1].state =
                        <<"User: ",
                          Shown([name |-> name, type |-> "user"] \in log),
                          " | Root: ",
                          Shown([name |-> name, type |-> "root"] \in log)>>]_vars

\* "Lame" is active and the log holds its user record only, next to a root
\* record of another machine: the payload is about to be pushed
C13_Witness ==
    /\ pc = "update_machine"
    /\ active # None /\ active[1].name = "Lame"
    /\ act_resp # None /\ act_resp[1].status = 200
    /\ Records(act_resp[1].activity) =
           {[name |-> "Lame", type |-> "user"], [name |-> "Blue", type |-> "root"]}
    /\ activity_flags = [user |-> TRUE, root |-> FALSE]

\* ---- C14 ----
\* C14: large_image of the machine payload is the origin followed by the
\* avatar when the avatar starts with "/", the avatar itself when it is
\* another non-empty string, and "htb_logo" when it is None or empty.
C14_LargeImageResolved ==
    (pc = "sleep10" /\ active # None /\ payload # None)
        => LET av == active[1].avatar
               img == payload[1].large_image
           IN  /\ (av = None \/ av = Some(<<>>)) => img = <<"htb_logo">>
               /\ (av # None /\ av # Some(<<>>) /\ av[1][1] = "/")
                      => img = <<"https://app.hackthebox.com">> \o av[1]
               /\ (av # None /\ av # Some(<<>>) /\ av[1][1] # "/")
                      => img = av[1]

\* a machine with an absolute avatar URL has been pushed
C14_Witness ==
    /\ pc = "sleep10"
    /\ active # None /\ active[1].avatar = Some(<<"https://cdn.example/lame.png">>)
    /\ payload # None /\ payload[1].large_image = <<"https://cdn.example/lame.png">>

\* ---- C15 ----
\* C15: with HTB_API_TOKEN unset (or empty) the script ends with exit status
\* 1 as its first step: no presence client is constructed, no connect() and
\* no API request is made.
C15_NoTokenExitsOne ==
    /\ [][(pc = "startup" /\ HTB_API_TOKEN \in {None, Some("")})
              => (pc' = "done" /\ exit_code' = 1)]_vars
    /\ [](HTB_API_TOKEN \in {None, Some("")}
              => /\ pc \in {"startup", "done"}
                 /\ pc = "done" => exit_code = 1
                 /\ lastCall = NoCall
                 /\ ~connected_rpc
                 /\ cur = FreshIter
                 /\ payload = None)

\* the script has ended for want of a token
C15_Witness ==
    /\ HTB_API_TOKEN = None
    /\ pc = "done"
    /\ exit_code = 1
    /\ lastCall = NoCall

\* ---- C16 ----
FetchOrder == <<"user_info", "conn_status", "active_machine", "activity">>

\* the iteration it, about to sleep at pc, has done what its outcome plans
PlannedWorkDone(it) ==
    \/ pc = "h_sleep" /\ it.escalated
    \/ pc = "sleep3" /\ ~connected_rpc /\ it.fetches = <<>>
                     /\ it.rpc = <<"connect">>
    \/ pc = "sleep5" /\ it.session = "absent"
                     /\ it.fetches = SubSeq(FetchOrder, 1, 3)
                     /\ connection => "update" \in Calls(it)
    \/ pc = "sleep10" /\ it.session = "present" /\ it.pushed
                      /\ it.fetches \in {SubSeq(FetchOrder, 1, 3), FetchOrder}

\* C16: within one iteration the requests made are an initial part of the
\* order user info, connection status, active session, activity log (so each
\* at most once and none again after a failure); the activity log is
\* requested only with a session present; no step is followed by itself; and
\* an iteration ends either in the handler or with its planned work done.
C16_NoRetryFixedOrder ==
    /\ [](\E n \in 0..4 : cur.fetches = SubSeq(FetchOrder, 1, n))
    /\ []("activity" \in Requests(cur) => cur.session = "present")
    /\ [][pc' # pc]_vars
    /\ [][lastCall'.res = "fail" =>
              (pc' = "h_clear" \/ pc \in {"connect", "conn_status", "activity",
                                          "h_clear", "kb_clear"})]_vars
    /\ [][cur' = FreshIter /\ ~interrupted' => PlannedWorkDone(cur)]_vars

\* the status request failed, and the iteration went on to request the
\* session and the activity log, each once
C16_Witness ==
    /\ cur.status = "fail"
    /\ cur.fetches = FetchOrder
    /\ pc = "update_machine"

\* ---- C17 ----
Sleeps == {"sleep3", "sleep5", "sleep10", "h_sleep"}

\* the length of the sleep that the outcome of iteration it calls for
SleepFor(it) ==
    IF it.escalated THEN 5
    ELSE IF it.session = "absent" THEN 5
    ELSE IF it.session = "present" /\ it.pushed THEN 10
    ELSE IF it.rpc = <<"connect">> /\ ~connected_rpc THEN 3
    ELSE 0

C18_ConnectedIsMonotonic ==
    /\ [][connected_rpc => connected_rpc']_vars
    /\ [](connected_rpc => pc # "connect")
    /\ [][(connected_rpc /\ cur'.rpc # cur.rpc /\ cur'.rpc # <<>>)
              => cur'.rpc[Len(cur'.rpc)] # "connect"]_vars

\* update() of a machine payload failed, the handler ran, and the next
\* iteration starts with the requests, still connected
C18_Witness ==
    /\ connected_rpc
    /\ prev.escalated /\ prev.session = "present" /\ ~prev.pushed
    /\ cur = FreshIter
    /\ pc = "user_info"

\* ---- C19 ----
\* C19: a step changes last_machine only if it is update() of a machine
\* payload returning normally (the new value is the name of the session) or
\* clear() of the no-session branch returning normally (the new value is
\* None); a call that failed or was interrupted, and every step of the two
\* handlers, leaves it as it was.
C19_LastMachineFrame ==
    /\ [][last_machine' # last_machine =>
            \/ /\ pc = "update_machine"
               /\ lastCall' = CallOf("update", "ok")
               /\ payload'[1].details = active[1].name
               /\ last_machine' = Some(active[1].name)
            \/ /\ pc = "clear"
               /\ cur.session = "absent"
               /\ lastCall' = CallOf("clear", "ok")
               /\ last_machine' = None]_vars
    /\ [][(lastCall'.res # "ok" \/ pc \in {"h_clear", "h_sleep", "kb_clear"})
              => last_machine' = last_machine]_vars

\* the clear() of the no-session branch failed and the machine is still
\* recorded when the handler starts
C19_Witness ==
    /\ cur.session = "absent"
    /\ cur.escalated /\ cur.cause = "clear"
    /\ lastCall = CallOf("clear", "fail")
    /\ last_machine # None
    /\ pc = "h_clear"

\* ---- C20 ----
\* a step in which no request and no presence call fails, and the session
\* request, if it is the step, answers with machine X
GoodStep(X) ==
    /\ lastCall'.res = "ok" \/ (pc = "activity" /\ user = None)
    /\ pc = "active_machine" => (active' # None /\ active'[1].name = X)

MachineShown(X) ==
    /\ pc = "sleep10"
    /\ payload # None
    /\ payload[1].details = X
    /\ last_machine = Some(X)

\* C20: if the client gets connected, no interrupt arrives, and from some
\* point on every step is a GoodStep for machine X, then the payload of X is
\* pushed again and again and last_machine settles at X, whatever failed
\* before that point.
C20_RecoversOnceCallsSucceed ==
    \A X \in Names :
        (<>connected_rpc /\ []~interrupted /\ <>[][GoodStep(X)]_vars)
            => ([]<>MachineShown(X) /\ <>[](last_machine = Some(X)))

\* after an iteration that ended in the failure handler, the machine is
\* pushed and recorded
C20_Witness ==
    /\ prev.escalated
    /\ ~interrupted
    /\ MachineShown("Lame")
====
